---- MODULE Spec2Model ----
(***************************************************************************)
(* Model of the two notebooks of PyConHK2024-torch-lightning.              *)
(*                                                                         *)
(* Each notebook section that the properties below are about is one        *)
(* scenario with its own variables, initial state and next-state relation: *)
(*   SpecSearch     the hyperparameter search loop (02_resnet)             *)
(*   SpecCallbacks  the run with EarlyStopping and ModelCheckpoint         *)
(*   SpecSlack      the run with MonitorTrainingOnSlack                    *)
(*   SpecCompare    train_regression_model and Trainer.fit (01 notebook)   *)
(*   SpecData       one pass over a data module's loaders                  *)
(* A scenario's actions leave the variables of the others unchanged.       *)
(*                                                                         *)
(* Real-valued quantities are fixed-point integers; the unit of each is    *)
(* stated where it is defined.                                             *)
(***************************************************************************)
EXTENDS Integers, Sequences, FiniteSets, TLC

VARIABLES
    \* ---- hyperparameter search loop (02_resnet, cells at lines 195-248)
    s_pc,             \* position of the loop cell
    i,                \* iterations of `for _ in range(n_samples)` started
    hyperparameters,  \* the notebook global `hyperparameters`
    resnet,           \* the notebook global `resnet`
    trainer,          \* the notebook global `trainer`
    data_module,      \* the notebook global `data_module`
    fits,             \* trainer.fit calls that returned
    failed_at,        \* iteration whose trainer.fit raised, 0 when none has
    \* ---- run with the built-in callbacks (02_resnet, cells at lines 268-315)
    c_pc,             \* position of trainer.fit
    c_trainer,        \* the Trainer: current_epoch, should_stop
    c_model,          \* the ResNet18 being trained: epochs_trained
    early_stopping,   \* the EarlyStopping callback's state
    model_checkpoint, \* the ModelCheckpoint callback's state
    models_dir,       \* the checkpoint files under ./models
    val_loss,         \* val_loss logged by every validation epoch so far
    \* ---- run with the Slack callback (02_resnet, cells at lines 333-361)
    k_pc,             \* position of trainer.fit
    k_trainer,        \* the Trainer: current_epoch, should_stop
    callback,         \* the MonitorTrainingOnSlack instance
    stop_present,     \* a stop instruction is in the external channel
    slack_log,        \* what the callback has done on the client so far
    \* ---- native loop and Trainer.fit on the regression data (01 notebook)
    m_pc,             \* which run is executing, and its phase
    m_epoch,          \* epochs the executing run has completed
    m_batch,          \* batches of the current phase processed
    m_runs,           \* per run: parameter updates, loss computations, phases
    \* ---- one pass over a data module's loaders
    d_pc,             \* position of the pass
    d_module,         \* the data module: dataset size and batch_size
    d_sampler,        \* the order in which the loader's sampler yields indices
    d_batches         \* the batches the pass has yielded so far

varsSearch == <<s_pc, i, hyperparameters, resnet, trainer, data_module, fits, failed_at>>
varsCallbacks == <<c_pc, c_trainer, c_model, early_stopping, model_checkpoint, models_dir, val_loss>>
varsSlack == <<k_pc, k_trainer, callback, stop_present, slack_log>>
varsCompare == <<m_pc, m_epoch, m_batch, m_runs>>
varsData == <<d_pc, d_module, d_sampler, d_batches>>
vars == <<varsSearch, varsCallbacks, varsSlack, varsCompare, varsData>>

notSearch == <<varsCallbacks, varsSlack, varsCompare, varsData>>
notCallbacks == <<varsSearch, varsSlack, varsCompare, varsData>>
notSlack == <<varsSearch, varsCallbacks, varsCompare, varsData>>
notCompare == <<varsSearch, varsCallbacks, varsSlack, varsData>>
notData == <<varsSearch, varsCallbacks, varsSlack, varsCompare>>

\* A scenario that is not executing.
IdleSearch ==
    /\ s_pc = "idle" /\ i = 0 /\ hyperparameters = <<>> /\ resnet = <<>>
    /\ trainer = <<>> /\ data_module = <<>> /\ fits = 0 /\ failed_at = 0
IdleCallbacks ==
    /\ c_pc = "idle" /\ c_trainer = <<>> /\ c_model = <<>> /\ early_stopping = <<>>
    /\ model_checkpoint = <<>> /\ models_dir = {} /\ val_loss = <<>>
IdleSlack ==
    /\ k_pc = "idle" /\ k_trainer = <<>> /\ callback = <<>>
    /\ stop_present = FALSE /\ slack_log = <<>>
IdleCompare ==
    /\ m_pc = "idle" /\ m_epoch = 0 /\ m_batch = 0 /\ m_runs = <<>>
IdleData ==
    /\ d_pc = "idle" /\ d_module = <<>> /\ d_sampler = <<>> /\ d_batches = <<>>

(***************************************************************************)
(* Bounds of the model.                                                    *)
(***************************************************************************)
\* np.random.uniform is sampled at GridSteps + 1 evenly spaced points of its range.
GridSteps == 2

(***************************************************************************)
(* Hyperparameter sampler.                                                 *)
(* Units: lr 1e-7, weight_decay 1e-2, step_size 1e-1, gamma 1e-1.          *)
(***************************************************************************)
search_space ==
    [optimizer |-> [lr |-> <<1, 100>>, weight_decay |-> <<1, 10>>],
     scheduler |-> [step_size |-> <<50, 100>>, gamma |-> <<1, 5>>]]

n_samples == 5

\* A sampler that ignores the lower end of the range.
uniform_from_zero(low, high) ==
    {(high * k) \div GridSteps : k \in 0..GridSteps}

\* Values np.random.uniform(low, high) can return: low + (high - low) * u, 0 <= u <= 1.
uniform(low, high) ==
    {low + ((high - low) * k) \div GridSteps : k \in 0..GridSteps}

\* The inner loop of generate_hyperparameters: one draw for every subkey of a group.
SampleGroup(key) ==
    LET value == search_space[key]
        Pool == UNION {uniform(value[subkey][1], value[subkey][2]) : subkey \in DOMAIN value}
    IN  {g \in [DOMAIN value -> Pool] :
            \A subkey \in DOMAIN value :
                g[subkey] \in uniform(value[subkey][1], value[subkey][2])}

\* The values generate_hyperparameters can return: one sampled group for every key.
generate_hyperparameters ==
    LET Groups == [key \in DOMAIN search_space |-> SampleGroup(key)]
        All == UNION {Groups[key] : key \in DOMAIN search_space}
    IN  {hp : hp \in {h \in [DOMAIN search_space -> All] :
                        \A key \in DOMAIN search_space : h[key] \in Groups[key]}}

\* The hand-written configuration of the first training cell.
hand_written_hyperparameters ==
    [optimizer |-> [lr |-> 1, weight_decay |-> 1],
     scheduler |-> [step_size |-> 50, gamma |-> 1]]

(***************************************************************************)
(* Objects the notebook constructs.  `id` is the object's identity: the    *)
(* loop iteration that constructed it (0: constructed before the loop).    *)
(***************************************************************************)
DataModuleCIFAR10(bs) == [id |-> 0, batch_size |-> bs]

\* A model object that outlives the iteration that constructed it.
ReusedResNet18(hp, id) ==
    IF i = 0 THEN [id |-> id, hyperparameters |-> hp, epochs_trained |-> 0]
             ELSE resnet

ResNet18(hp, id) == [id |-> id, hyperparameters |-> hp, epochs_trained |-> 0]

Trainer(max_epochs, id) == [id |-> id, max_epochs |-> max_epochs, current_epoch |-> 0]

search_max_epochs == 10

\* An exception of the loop body is caught and the loop goes on.
AfterFitRaisesCaught == "loop"

\* Where the loop cell is after trainer.fit raises: no try/except, the cell ends.
AfterFitRaises == "raised"

(***************************************************************************)
(* Hyperparameter search loop.                                             *)
(***************************************************************************)
InitSearch ==
    /\ s_pc = "loop"
    /\ i = 0
    /\ hyperparameters = hand_written_hyperparameters
    /\ resnet = ResNet18(hand_written_hyperparameters, 0)
    /\ trainer = Trainer(search_max_epochs, 0)
    /\ data_module = DataModuleCIFAR10(512)
    /\ fits = 0
    /\ failed_at = 0
    /\ IdleCallbacks /\ IdleSlack /\ IdleCompare /\ IdleData

\* One iteration up to the call of trainer.fit: sample, construct model and trainer.
LoopIteration ==
    /\ s_pc = "loop"
    /\ i < n_samples
    /\ \E hp \in generate_hyperparameters :
        /\ hyperparameters' = hp
        /\ resnet' = ResNet18(hp, i + 1)
    /\ trainer' = Trainer(search_max_epochs, i + 1)
    /\ i' = i + 1
    /\ s_pc' = "fit"
    /\ UNCHANGED <<data_module, fits, failed_at>>
    /\ UNCHANGED notSearch

\* trainer.fit: one epoch of training and validation.
FitEpoch ==
    /\ s_pc = "fit"
    /\ trainer.current_epoch < trainer.max_epochs
    /\ trainer' = [trainer EXCEPT !.current_epoch = @ + 1]
    /\ resnet' = [resnet EXCEPT !.epochs_trained = @ + 1]
    /\ UNCHANGED <<s_pc, i, hyperparameters, data_module, fits, failed_at>>
    /\ UNCHANGED notSearch

\* trainer.fit returns once max_epochs is reached.
FitReturn ==
    /\ s_pc = "fit"
    /\ trainer.current_epoch >= trainer.max_epochs
    /\ fits' = fits + 1
    /\ s_pc' = "loop"
    /\ UNCHANGED <<i, hyperparameters, resnet, trainer, data_module, failed_at>>
    /\ UNCHANGED notSearch

\* trainer.fit raises (any failure of the run).
FitRaise ==
    /\ s_pc = "fit"
    /\ failed_at' = i
    /\ s_pc' = AfterFitRaises
    /\ UNCHANGED <<i, hyperparameters, resnet, trainer, data_module, fits>>
    /\ UNCHANGED notSearch

\* range(n_samples) is exhausted.
LoopExit ==
    /\ s_pc = "loop"
    /\ i >= n_samples
    /\ s_pc' = "done"
    /\ UNCHANGED <<i, hyperparameters, resnet, trainer, data_module, fits, failed_at>>
    /\ UNCHANGED notSearch

NextSearch ==
    \/ LoopIteration
    \/ FitEpoch
    \/ FitReturn
    \/ FitRaise
    \/ LoopExit

SpecSearch == InitSearch /\ [][NextSearch]_vars

\* The loop cell runs to its end unless it is stopped from outside.
FairSpecSearch == SpecSearch /\ WF_vars(NextSearch)

\* hp has the groups and names of search_space and every value is in its range.
InSearchSpace(hp) ==
    /\ DOMAIN hp = {"optimizer", "scheduler"}
    /\ DOMAIN hp = DOMAIN search_space
    /\ DOMAIN hp.optimizer = {"lr", "weight_decay"}
    /\ DOMAIN hp.scheduler = {"step_size", "gamma"}
    /\ \A key \in DOMAIN search_space :
        /\ DOMAIN hp[key] = DOMAIN search_space[key]
        /\ \A subkey \in DOMAIN search_space[key] :
            /\ search_space[key][subkey][1] <= hp[key][subkey]
            /\ hp[key][subkey] <= search_space[key][subkey][2]

(***************************************************************************)
(* C1: every value generate_hyperparameters returns has exactly the groups *)
(* and parameter names of search_space, and each value lies in its range   *)
(* [low, high].                                                            *)
(***************************************************************************)
C1_SampleInSearchSpace ==
    i > 0 => InSearchSpace(hyperparameters) /\ InSearchSpace(resnet.hyperparameters)

\* A sampled set strictly inside its ranges has been returned in the third iteration.
C1_Witness ==
    /\ i = 3
    /\ s_pc = "fit"
    /\ hyperparameters.optimizer.lr > 1
    /\ hyperparameters.optimizer.lr < 100
    /\ hyperparameters.scheduler.step_size = 75

\* A step_size (unit 1e-1) that is a whole number of epochs between 5 and 10.
WholeStepSize(step_size) ==
    /\ step_size % 10 = 0
    /\ step_size \div 10 \in 5..10

(***************************************************************************)
(* C11: every hyperparameter set generate_hyperparameters returns is of    *)
(* the kind of the hand-written ones passed to ResNet18: its               *)
(* scheduler.step_size is a whole number of epochs, an integer between 5   *)
(* and 10, as the hand-written step_size = 5 is.                           *)
(***************************************************************************)
C11_WholeStepSize ==
    /\ WholeStepSize(hand_written_hyperparameters.scheduler.step_size)
    /\ i > 0 =>
        /\ WholeStepSize(hyperparameters.scheduler.step_size)
        /\ WholeStepSize(resnet.hyperparameters.scheduler.step_size)

(***************************************************************************)
(* C8: a failure raised by trainer.fit in iteration i of the search loop   *)
(* propagates out of the loop: the cell ends there, and no later iteration *)
(* is started.                                                             *)
(***************************************************************************)
C8_FailurePropagates ==
    failed_at # 0 =>
        /\ s_pc = "raised"
        /\ i = failed_at
        /\ fits = failed_at - 1

\* The second run failed in its fourth epoch; three iterations were never started.
C8_Witness ==
    /\ s_pc = "raised"
    /\ failed_at = 2
    /\ i = 2
    /\ trainer.current_epoch = 3

\* What holds of the loop cell at every moment.
C9_Safety ==
    /\ data_module = DataModuleCIFAR10(512)
    /\ i \in 0..5
    /\ trainer.current_epoch <= 10
    /\ s_pc = "fit" =>
        /\ resnet.id = i
        /\ trainer.id = i
        /\ resnet.hyperparameters = hyperparameters
        /\ resnet.epochs_trained = trainer.current_epoch
        /\ fits = i - 1
    /\ (s_pc = "loop" /\ i > 0 /\ failed_at = 0) =>
        /\ fits = i
        /\ trainer.current_epoch = 10
    /\ s_pc = "done" =>
        /\ fits = 5
        /\ i = 5
        /\ failed_at = 0

(***************************************************************************)
(* C9: when no run fails the loop performs exactly n_samples = 5 runs one  *)
(* after another; each run uses the hyperparameters sampled in its own     *)
(* iteration with a model and a trainer constructed in that iteration      *)
(* (only the data module is shared), no run exceeds 10 epochs, and the     *)
(* loop terminates.                                                        *)
(***************************************************************************)
C9_SearchLoop == [](C9_Safety) /\ <>(s_pc \in {"done", "raised"})

C9_Witness ==
    /\ s_pc = "done"
    /\ fits = 5
    /\ resnet.id = 5
    /\ resnet.epochs_trained = 10

(***************************************************************************)
(* Run with the built-in callbacks: EarlyStopping and ModelCheckpoint.     *)
(*                                                                         *)
(* val_loss values: 0..MaxLoss are the finite losses, Inf is +infinity and *)
(* NaN is not-a-number.                                                    *)
(***************************************************************************)
MaxLoss == 9

Inf == MaxLoss + 1
NaN == MaxLoss + 2
Losses == 0..NaN

\* torch.isfinite
isfinite(x) == x <= MaxLoss

\* torch.lt: a comparison with NaN is false.
lt(a, b) == a # NaN /\ b # NaN /\ a < b

None == <<>>

\* EarlyStopping(monitor="val_loss", mode="min", patience=1)
patience_two == 1 + 1

patience == 1

\* ModelCheckpoint(dirpath="./models", monitor="val_loss", save_top_k=1, mode="min")
save_top_k_two == 1 + 1

save_top_k == 1

\* Trainer(max_epochs=10, check_val_every_n_epoch=1, callbacks=callbacks)
callbacks_max_epochs == 10

\* "{epoch:02d}": the epoch as two decimal digits (epochs are below 100).
format_02d(n) == <<n \div 10, n % 10>>

\* ModelCheckpoint.format_checkpoint_name for
\* filename="resnet18_cifar10_best_{epoch:02d}"; the metric name is inserted.
format_checkpoint_name(epoch) ==
    <<"./models", "resnet18_cifar10_best_", "epoch=", format_02d(epoch), ".ckpt">>

\* EarlyStopping._evaluate_stopping_criteria, mode "min", min_delta 0,
\* check_finite True: the callback's new state and whether to stop.
evaluate_stopping_criteria(es, current) ==
    IF ~ isfinite(current)
    THEN [es |-> es, should_stop |-> TRUE]
    ELSE IF lt(current, es.best_score)
    THEN [es |-> [es EXCEPT !.best_score = current, !.wait_count = 0],
          should_stop |-> FALSE]
    ELSE [es |-> [es EXCEPT !.wait_count = @ + 1],
          should_stop |-> es.wait_count + 1 >= es.patience]

\* ModelCheckpoint.check_monitor_top_k, mode "min".
check_monitor_top_k(mc, current) ==
    IF Cardinality(DOMAIN mc.best_k_models) < mc.save_top_k
    THEN TRUE
    ELSE lt(current, mc.best_k_models[mc.kth_best_model_path])

\* The key of the dictionary d with the largest (smallest) value.
ArgMax(d) == CHOOSE p \in DOMAIN d : \A q \in DOMAIN d : d[q] <= d[p]
ArgMin(d) == CHOOSE p \in DOMAIN d : \A q \in DOMAIN d : d[p] <= d[q]

\* ModelCheckpoint._update_best_and_save: the callback's new state and the
\* directory after the new file is written and the dropped one removed.
update_best_and_save(mc, dir, current, tr, model) ==
    LET k == mc.save_top_k
        full == Cardinality(DOMAIN mc.best_k_models) = k /\ k > 0
        del_filepath == IF full THEN mc.kth_best_model_path ELSE None
        kept == [q \in DOMAIN mc.best_k_models \ {del_filepath} |-> mc.best_k_models[q]]
        score == IF current = NaN THEN Inf ELSE current
        filepath == format_checkpoint_name(tr.current_epoch)
        best_k_models == [q \in DOMAIN kept \cup {filepath} |->
                            IF q = filepath THEN score ELSE kept[q]]
        written == {f \in dir : f.path # filepath}
                     \cup {[path |-> filepath, snapshot |-> model]}
    IN  [mc |-> [mc EXCEPT
                    !.best_k_models = best_k_models,
                    !.kth_best_model_path =
                        IF Cardinality(DOMAIN best_k_models) = k
                        THEN ArgMax(best_k_models) ELSE @,
                    !.best_model_path = ArgMin(best_k_models)],
         dir |-> IF del_filepath # None /\ del_filepath # filepath
                 THEN {f \in written : f.path # del_filepath}
                 ELSE written]

InitCallbacks ==
    /\ c_pc = "sanity"
    /\ c_trainer = [current_epoch |-> 0, max_epochs |-> callbacks_max_epochs,
                    should_stop |-> FALSE, sanity_checking |-> TRUE]
    /\ c_model = [epochs_trained |-> 0]
    /\ early_stopping = [best_score |-> Inf, wait_count |-> 0, stopped_epoch |-> 0,
                         patience |-> patience]
    /\ model_checkpoint = [best_k_models |-> <<>>, kth_best_model_path |-> None,
                           best_model_path |-> None, save_top_k |-> save_top_k]
    /\ models_dir = {}
    /\ val_loss = <<>>
    /\ IdleSearch /\ IdleSlack /\ IdleCompare /\ IdleData

\* EarlyStopping's hook (_run_early_stopping_check): skipped while sanity checking.
\* With validation once per epoch it runs from on_train_epoch_end, which the
\* trainer calls after the epoch's validation.
EarlyStoppingHook(current) ==
    IF c_trainer.sanity_checking
    THEN UNCHANGED <<early_stopping, c_trainer>>
    ELSE LET r == evaluate_stopping_criteria(early_stopping, current)
         IN  /\ early_stopping' =
                    IF r.should_stop
                    THEN [r.es EXCEPT !.stopped_epoch = c_trainer.current_epoch]
                    ELSE r.es
             /\ c_trainer' = [c_trainer EXCEPT !.should_stop = @ \/ r.should_stop]

\* ModelCheckpoint's hook (_save_topk_checkpoint): skipped while sanity checking.
\* With validation once per epoch it runs from on_train_epoch_end as well.
ModelCheckpointHook(current) ==
    IF c_trainer.sanity_checking \/ ~ check_monitor_top_k(model_checkpoint, current)
    THEN UNCHANGED <<model_checkpoint, models_dir>>
    ELSE LET r == update_best_and_save(model_checkpoint, models_dir, current,
                                       c_trainer, c_model)
         IN  /\ model_checkpoint' = r.mc
             /\ models_dir' = r.dir

\* The sanity check before the first epoch: validation batches are run and the
\* callbacks' hooks are called with trainer.sanity_checking set.
CallbacksSanityCheck ==
    /\ c_pc = "sanity"
    /\ \E current \in Losses :
        /\ EarlyStoppingHook(current)
        /\ ModelCheckpointHook(current)
    /\ c_pc' = "sanity_end"
    /\ UNCHANGED <<c_model, val_loss>>
    /\ UNCHANGED notCallbacks

CallbacksSanityEnd ==
    /\ c_pc = "sanity_end"
    /\ c_trainer' = [c_trainer EXCEPT !.sanity_checking = FALSE]
    /\ c_pc' = "train"
    /\ UNCHANGED <<c_model, early_stopping, model_checkpoint, models_dir, val_loss>>
    /\ UNCHANGED notCallbacks

\* The training batches of one epoch.
CallbacksTrainingEpoch ==
    /\ c_pc = "train"
    /\ c_model' = [c_model EXCEPT !.epochs_trained = @ + 1]
    /\ c_pc' = "validate"
    /\ UNCHANGED <<c_trainer, early_stopping, model_checkpoint, models_dir, val_loss>>
    /\ UNCHANGED notCallbacks

\* The validation batches of the epoch: the model logs val_loss.
CallbacksValidationEpoch ==
    /\ c_pc = "validate"
    /\ \E current \in Losses : val_loss' = Append(val_loss, current)
    /\ c_pc' = "early_stopping"
    /\ UNCHANGED <<c_trainer, c_model, early_stopping, model_checkpoint, models_dir>>
    /\ UNCHANGED notCallbacks

\* The epoch-end hook of the first callback of the list.
CallEarlyStopping ==
    /\ c_pc = "early_stopping"
    /\ EarlyStoppingHook(val_loss[Len(val_loss)])
    /\ c_pc' = "model_checkpoint"
    /\ UNCHANGED <<c_model, model_checkpoint, models_dir, val_loss>>
    /\ UNCHANGED notCallbacks

\* The epoch-end hook of the second callback of the list.
CallModelCheckpoint ==
    /\ c_pc = "model_checkpoint"
    /\ ModelCheckpointHook(val_loss[Len(val_loss)])
    /\ c_pc' = "advance"
    /\ UNCHANGED <<c_trainer, c_model, early_stopping, val_loss>>
    /\ UNCHANGED notCallbacks

\* The fit loop ends the epoch: it is done when a stop was requested or
\* max_epochs is reached.
CallbacksAdvance ==
    /\ c_pc = "advance"
    /\ c_trainer' = [c_trainer EXCEPT !.current_epoch = @ + 1]
    /\ c_pc' = IF c_trainer.should_stop
                  \/ c_trainer.current_epoch + 1 >= c_trainer.max_epochs
               THEN "done" ELSE "train"
    /\ UNCHANGED <<c_model, early_stopping, model_checkpoint, models_dir, val_loss>>
    /\ UNCHANGED notCallbacks

NextCallbacks ==
    \/ CallbacksSanityCheck
    \/ CallbacksSanityEnd
    \/ CallbacksTrainingEpoch
    \/ CallbacksValidationEpoch
    \/ CallEarlyStopping
    \/ CallModelCheckpoint
    \/ CallbacksAdvance

SpecCallbacks == InitCallbacks /\ [][NextCallbacks]_vars

\* val_loss of validation epoch k, a NaN counted as +infinity.
Loss(k) == IF val_loss[k] = NaN THEN Inf ELSE val_loss[k]

\* Validation epoch k improves on the best val_loss of the epochs before it.
Improves(k) ==
    /\ val_loss[k] # NaN
    /\ val_loss[k] # Inf
    /\ \A j \in 1..(k - 1) : val_loss[k] < Loss(j)

(***************************************************************************)
(* C6: with EarlyStopping(val_loss, min, patience=1) the run stops at the  *)
(* end of the first validation epoch whose val_loss does not improve on    *)
(* the best seen so far, otherwise at max_epochs = 10; it never performs   *)
(* more than 10 epochs.                                                    *)
(***************************************************************************)
C6_EarlyStopping ==
    LET n == Len(val_loss)
    IN  /\ n <= 10
        /\ c_trainer.current_epoch <= 10
        /\ c_model.epochs_trained <= 10
        /\ \A k \in 1..(n - 1) : Improves(k)
        /\ c_pc \in {"train", "validate"} =>
            /\ n = c_trainer.current_epoch
            /\ n < 10
            /\ n > 0 => Improves(n)
        /\ c_pc = "done" =>
            /\ n = c_trainer.current_epoch
            /\ n = c_model.epochs_trained
            /\ n > 0
            /\ (~ Improves(n)) \/ n = 10

\* The run stopped after its fourth validation epoch, the first without improvement.
C6_Witness ==
    /\ c_pc = "done"
    /\ c_trainer.current_epoch = 4
    /\ val_loss = <<7, 5, 2, 2>>
    /\ early_stopping.stopped_epoch = 3

(***************************************************************************)
(* C10: with ModelCheckpoint(val_loss, min, save_top_k=1), after every     *)
(* validation epoch at most one checkpoint of the callback exists under    *)
(* ./models; it is the snapshot taken at the epoch with the lowest         *)
(* val_loss so far and its file name carries that epoch number.            *)
(***************************************************************************)
C10_BestCheckpoint ==
    LET n == Len(val_loss)
    IN  /\ Cardinality(models_dir) <= 1
        /\ (c_pc \in {"advance", "train", "validate", "done"} /\ n > 0) =>
            \E f \in models_dir :
                LET e == f.snapshot.epochs_trained - 1
                IN  /\ models_dir = {f}
                    /\ e + 1 \in 1..n
                    /\ \A j \in 1..n : Loss(e + 1) <= Loss(j)
                    /\ f.path[1] = "./models"
                    /\ f.path[3] = "epoch="
                    /\ f.path[4][2] \in 0..9
                    /\ 10 * f.path[4][1] + f.path[4][2] = e

\* After four validation epochs the file is the snapshot of the third (epoch 2).
C10_Witness ==
    /\ c_pc = "done"
    /\ val_loss = <<7, 5, 2, 2>>
    /\ \E f \in models_dir :
        /\ f.path = <<"./models", "resnet18_cifar10_best_", "epoch=", <<0, 2>>, ".ckpt">>
        /\ f.snapshot.epochs_trained = 3

(***************************************************************************)
(* Run with the MonitorTrainingOnSlack callback.                           *)
(*                                                                         *)
(* The callback sends its status message and polls the channel for a stop  *)
(* instruction at the end of the training epochs on its cadence: the       *)
(* epochs e with e % log_every_n_epoch = first_log_epoch.                  *)
(***************************************************************************)
MaxCadence == 3

\* Trainer(max_epochs=50, check_val_every_n_epoch=1, callbacks=callbacks)
slack_max_epochs_ten == 5 + 5

slack_max_epochs == 50

\* MonitorTrainingOnSlack(slack_client=slack_client, log_every_n_epoch=n)
MonitorTrainingOnSlack(n, first) ==
    [slack_client |-> "slack_client", log_every_n_epoch |-> n, first_log_epoch |-> first]

\* The callback acts at the end of every epoch.
on_cadence_always(cb, epoch) == TRUE

\* The callback acts at the end of this epoch.
on_cadence(cb, epoch) == epoch % cb.log_every_n_epoch = cb.first_log_epoch

\* Calls of the client's send a failed send is followed by: a second try.
send_attempts_retry(outcome) == IF outcome = "failed" THEN 2 ELSE 1

\* Calls of the client's send made for one status message.
send_attempts(outcome) == 1

InitSlack ==
    /\ k_pc = "train"
    /\ k_trainer = [current_epoch |-> 0, max_epochs |-> slack_max_epochs,
                    should_stop |-> FALSE]
    /\ \E n \in 1..MaxCadence : \E first \in 0..(n - 1) :
        callback = MonitorTrainingOnSlack(n, first)
    /\ stop_present = FALSE
    /\ slack_log = [sent |-> 0, any_failed |-> FALSE, last_outcome |-> "none",
                    inv_sends |-> 0, inv_polls |-> 0, inv_epoch |-> 0,
                    stop_polled_at |-> 0]
    /\ IdleSearch /\ IdleCallbacks /\ IdleCompare /\ IdleData

\* The training and validation batches of one epoch.
SlackTrainingEpoch ==
    /\ k_pc = "train"
    /\ k_pc' = "epoch_end"
    /\ UNCHANGED <<k_trainer, callback, stop_present, slack_log>>
    /\ UNCHANGED notSlack

\* MonitorTrainingOnSlack.on_train_epoch_end: on the cadence, send the status
\* message (the send succeeds or fails) and poll the channel; a stop instruction
\* found there sets trainer.should_stop.  slack_log records the calls made.
OnTrainEpochEnd ==
    /\ k_pc = "epoch_end"
    /\ IF on_cadence(callback, k_trainer.current_epoch)
       THEN /\ \E outcome \in {"ok", "failed"} :
                slack_log' = [slack_log EXCEPT
                    !.sent = @ + send_attempts(outcome),
                    !.any_failed = @ \/ outcome = "failed",
                    !.last_outcome = outcome,
                    !.inv_sends = send_attempts(outcome),
                    !.inv_polls = 1,
                    !.inv_epoch = k_trainer.current_epoch,
                    !.stop_polled_at =
                        IF stop_present /\ @ = 0 THEN k_trainer.current_epoch + 1 ELSE @]
            /\ k_trainer' = [k_trainer EXCEPT !.should_stop = @ \/ stop_present]
       ELSE /\ slack_log' = [slack_log EXCEPT
                    !.last_outcome = "none",
                    !.inv_sends = 0,
                    !.inv_polls = 0,
                    !.inv_epoch = k_trainer.current_epoch]
            /\ UNCHANGED k_trainer
    /\ k_pc' = "advance"
    /\ UNCHANGED <<callback, stop_present>>
    /\ UNCHANGED notSlack

\* The fit loop ends the epoch: it is done when a stop was requested or
\* max_epochs is reached.
SlackAdvance ==
    /\ k_pc = "advance"
    /\ k_trainer' = [k_trainer EXCEPT !.current_epoch = @ + 1]
    /\ k_pc' = IF k_trainer.should_stop
                  \/ k_trainer.current_epoch + 1 >= k_trainer.max_epochs
               THEN "done" ELSE "train"
    /\ UNCHANGED <<callback, stop_present, slack_log>>
    /\ UNCHANGED notSlack

\* Somebody posts the stop instruction in the channel while the run goes on.
PostStop ==
    /\ k_pc \in {"train", "epoch_end", "advance"}
    /\ ~ stop_present
    /\ stop_present' = TRUE
    /\ UNCHANGED <<k_pc, k_trainer, callback, slack_log>>
    /\ UNCHANGED notSlack

NextSlack ==
    \/ SlackTrainingEpoch
    \/ OnTrainEpochEnd
    \/ SlackAdvance
    \/ PostStop

SpecSlack == InitSlack /\ [][NextSlack]_vars

\* Epochs whose on_train_epoch_end has run.
Invoked == k_trainer.current_epoch + (IF k_pc = "advance" THEN 1 ELSE 0)

(***************************************************************************)
(* C2 as stated: a stop instruction found by the poll at an epoch end      *)
(* makes the callback request termination, no further training epoch is   *)
(* started and the run ends before max_epochs = 50; when no stop           *)
(* instruction is found the run goes on until max_epochs and then ends.    *)
(***************************************************************************)
C2_Original ==
    /\ slack_log.stop_polled_at # 0 =>
        /\ k_trainer.should_stop
        /\ k_pc \in {"advance", "done"}
        /\ k_trainer.current_epoch <= slack_log.stop_polled_at
        /\ k_pc = "done" => k_trainer.current_epoch < 50
    /\ (k_pc = "done" /\ slack_log.stop_polled_at = 0) => k_trainer.current_epoch = 50

(***************************************************************************)
(* C2 amended: a stop instruction found by the poll at an epoch end makes  *)
(* the callback request termination and no further training epoch is       *)
(* started: the run ends with the epochs completed so far, which is before *)
(* max_epochs = 50 unless the poll was the one at the end of the 50th      *)
(* epoch; when no stop instruction is found the run goes on until          *)
(* max_epochs and then ends.                                               *)
(***************************************************************************)
C2_StopEndsRun ==
    /\ k_trainer.current_epoch <= 50
    /\ slack_log.stop_polled_at # 0 =>
        /\ k_trainer.should_stop
        /\ k_pc \in {"advance", "done"}
        /\ Invoked = slack_log.stop_polled_at
        /\ (k_pc = "done" /\ slack_log.stop_polled_at < 50) => k_trainer.current_epoch < 50
    /\ (k_pc = "done" /\ slack_log.stop_polled_at = 0) => k_trainer.current_epoch = 50

\* The stop instruction was found at the end of the third epoch of the notebook's
\* run and the run ended there.
C2_Witness ==
    /\ callback.log_every_n_epoch = 1
    /\ k_pc = "done"
    /\ slack_log.stop_polled_at = 3
    /\ k_trainer.current_epoch = 3

(***************************************************************************)
(* C3: with log_every_n_epoch = n a status message is sent at the end of a *)
(* training epoch if and only if the epoch is on the cadence of n epochs;  *)
(* with n = 1 the number of messages sent after k completed epochs is k.   *)
(***************************************************************************)
C3_Cadence ==
    LET n == callback.log_every_n_epoch
        due(e) == e % n = callback.first_log_epoch
    IN  /\ k_pc = "advance" => (slack_log.inv_sends >= 1 <=> due(k_trainer.current_epoch))
        /\ slack_log.sent = Cardinality({e \in 0..(Invoked - 1) : due(e)})
        /\ (n = 1 /\ k_pc \in {"train", "done"}) => slack_log.sent = k_trainer.current_epoch

\* With n = 3, seven epochs are complete and the ends of three of them were on
\* the cadence.
C3_Witness ==
    /\ callback = MonitorTrainingOnSlack(3, 0)
    /\ k_pc = "train"
    /\ k_trainer.current_epoch = 7
    /\ slack_log.sent = 3

(***************************************************************************)
(* C7: an epoch-end invocation of the callback makes at most one send      *)
(* attempt and at most one poll; a failed send is not retried in that      *)
(* invocation or at a later epoch, and the callback keeps no record of     *)
(* sent messages from one epoch to the next.                               *)
(***************************************************************************)
C7_NoRetry ==
    /\ [](/\ slack_log.inv_sends <= 1
          /\ slack_log.inv_polls <= 1
          /\ slack_log.sent <= Invoked
          /\ k_pc # "idle" => DOMAIN callback =
                {"slack_client", "log_every_n_epoch", "first_log_epoch"})
    /\ [][/\ callback' = callback
          /\ slack_log'.sent <= slack_log.sent + 1
          /\ slack_log'.sent > slack_log.sent =>
                slack_log'.inv_epoch = k_trainer.current_epoch]_vars

\* A send failed at some epoch; four epochs are complete and their four
\* messages were each attempted once.
C7_Witness ==
    /\ callback.log_every_n_epoch = 1
    /\ slack_log.any_failed
    /\ slack_log.last_outcome = "ok"
    /\ k_pc = "train"
    /\ k_trainer.current_epoch = 4
    /\ slack_log.sent = 4

(***************************************************************************)
(* Data loaders.  A dataset of n samples is the indices 1..n.              *)
(***************************************************************************)
MaxN == 4
MaxB == 3

\* torch.utils.data.DataLoader(dataset, batch_size=..., shuffle=...); drop_last
\* keeps its default.
DataLoader(n, batch_size, shuffle) ==
    [n |-> n, batch_size |-> batch_size, shuffle |-> shuffle, drop_last |-> FALSE]

\* DataModule(x, y, batch_size) and DataModuleCIFAR10(batch_size): the datasets
\* (both of n samples here) and the batch size.
DataModule(n, batch_size) == [n |-> n, batch_size |-> batch_size]

train_dataloader(dm) == DataLoader(dm.n, dm.batch_size, TRUE)

\* A validation loader that shuffles like the training loader.
val_dataloader_shuffled(dm) == DataLoader(dm.n, dm.batch_size, TRUE)

val_dataloader(dm) == DataLoader(dm.n, dm.batch_size, FALSE)

\* len(dataloader)
loader_len(loader) ==
    IF loader.drop_last
    THEN loader.n \div loader.batch_size
    ELSE (loader.n + loader.batch_size - 1) \div loader.batch_size

\* The orders in which the loader's sampler can yield the indices:
\* RandomSampler (any permutation) when shuffling, else SequentialSampler.
sampler_orders(loader) ==
    IF loader.shuffle
    THEN {o \in [1..loader.n -> 1..loader.n] :
            \A a, b \in 1..loader.n : o[a] = o[b] => a = b}
    ELSE {[k \in 1..loader.n |-> k]}

\* Indices the pass has yielded so far.
Yielded == IF Len(d_batches) = 0 THEN 0
           ELSE (Len(d_batches) - 1) * d_sampler.loader.batch_size
                + Len(d_batches[Len(d_batches)])

InitData ==
    /\ d_pc = "ready"
    /\ \E n \in 1..MaxN : \E batch_size \in 1..MaxB :
        d_module = DataModule(n, batch_size)
    /\ d_sampler = <<>>
    /\ d_batches = <<>>
    /\ IdleSearch /\ IdleCallbacks /\ IdleSlack /\ IdleCompare

\* iter(data_module.train_dataloader())
IterTrainDataloader ==
    /\ d_pc \in {"ready", "train_done", "val_done"}
    /\ \E order \in sampler_orders(train_dataloader(d_module)) :
        d_sampler' = [loader |-> train_dataloader(d_module), order |-> order]
    /\ d_batches' = <<>>
    /\ d_pc' = "train"
    /\ UNCHANGED d_module
    /\ UNCHANGED notData

\* iter(data_module.val_dataloader())
IterValDataloader ==
    /\ d_pc \in {"ready", "train_done", "val_done"}
    /\ \E order \in sampler_orders(val_dataloader(d_module)) :
        d_sampler' = [loader |-> val_dataloader(d_module), order |-> order]
    /\ d_batches' = <<>>
    /\ d_pc' = "val"
    /\ UNCHANGED d_module
    /\ UNCHANGED notData

\* next(iterator): the next batch_size indices of the sampler, or the rest of
\* them when fewer remain and drop_last is off.
NextBatch ==
    /\ d_pc \in {"train", "val"}
    /\ LET loader == d_sampler.loader
           rest == loader.n - Yielded
           size == IF rest < loader.batch_size THEN rest ELSE loader.batch_size
       IN  /\ rest > 0
           /\ rest >= loader.batch_size \/ ~ loader.drop_last
           /\ d_batches' = Append(d_batches,
                                  SubSeq(d_sampler.order, Yielded + 1, Yielded + size))
    /\ UNCHANGED <<d_pc, d_module, d_sampler>>
    /\ UNCHANGED notData

\* next(iterator) raises StopIteration: the pass is over.
StopIteration ==
    /\ d_pc \in {"train", "val"}
    /\ LET loader == d_sampler.loader
           rest == loader.n - Yielded
       IN  rest = 0 \/ (rest < loader.batch_size /\ loader.drop_last)
    /\ d_pc' = IF d_pc = "train" THEN "train_done" ELSE "val_done"
    /\ UNCHANGED <<d_module, d_sampler, d_batches>>
    /\ UNCHANGED notData

NextData ==
    \/ IterTrainDataloader
    \/ IterValDataloader
    \/ NextBatch
    \/ StopIteration

SpecData == InitData /\ [][NextData]_vars

(***************************************************************************)
(* C5: with N samples and batch size B one pass over train_dataloader()    *)
(* and one over val_dataloader() each yield ceil(N / B) batches that       *)
(* contain every sample exactly once, every batch of B samples except      *)
(* possibly the last; the validation pass is in dataset order, the         *)
(* training pass in some permutation.                                      *)
(***************************************************************************)
C5_Batches ==
    d_pc \in {"train_done", "val_done"} =>
        LET N == d_module.n
            B == d_module.batch_size
            K == Len(d_batches)
            Places(x) == {<<k, j>> \in (1..K) \X (1..B) :
                            j <= Len(d_batches[k]) /\ d_batches[k][j] = x}
        IN  /\ K * B >= N
            /\ (K - 1) * B < N
            /\ \A k \in 1..(K - 1) : Len(d_batches[k]) = B
            /\ Len(d_batches[K]) \in 1..B
            /\ \A x \in 1..N : Cardinality(Places(x)) = 1
            /\ \A k \in 1..K : \A j \in 1..Len(d_batches[k]) : d_batches[k][j] \in 1..N
            /\ d_pc = "val_done" =>
                \A k \in 1..K : \A j \in 1..Len(d_batches[k]) :
                    d_batches[k][j] = (k - 1) * B + j

\* A training pass over 4 samples in batches of 3, not in dataset order, with a
\* short last batch.
C5_Witness ==
    /\ d_pc = "train_done"
    /\ d_module = DataModule(4, 3)
    /\ d_batches = <<(<<3, 1, 4>>), (<<2>>)>>

(***************************************************************************)
(* The regression notebook: train_regression_model (native PyTorch), then  *)
(* Trainer.fit (PyTorch Lightning), on the same 500 samples.               *)
(***************************************************************************)
\* x = torch.linspace(0, 1, 500)
n_dataset == 500

\* DataLoader(TensorDataset(x, y), batch_size=16, ...) of the native run
torch_batch_size == 16

\* train_regression_model(..., n_epochs=5, ...)
n_epochs == 5

\* DataModule(x, y, batch_size=16), with twice the batch size
lightning_batch_size_doubled == 16 * 2

\* DataModule(x, y, batch_size=16)
lightning_batch_size == 16

\* Trainer(max_epochs=5, log_every_n_steps=1); num_sanity_val_steps keeps its default.
lightning_max_epochs == 5
num_sanity_val_steps == 2

torch_train_dataloader == DataLoader(n_dataset, torch_batch_size, TRUE)
torch_val_dataloader == DataLoader(n_dataset, torch_batch_size, FALSE)
lightning_data_module == DataModule(n_dataset, lightning_batch_size)

\* What a run has done: parameter updates, loss computations, and the phase of
\* every batch processed in its epochs, in order.
NewRun == [updates |-> 0, losses |-> 0, phases |-> <<>>, sanity_val_batches |-> 0]

\* A training batch: forward, loss, backward, optimizer step.
TrainBatch(run) ==
    [run EXCEPT !.updates = @ + 1, !.losses = @ + 1, !.phases = Append(@, "train")]

\* A validation batch: forward and loss, no gradient and no optimizer step.
ValBatch(run) ==
    [run EXCEPT !.losses = @ + 1, !.phases = Append(@, "val")]

InitCompare ==
    /\ m_pc = "torch_train"
    /\ m_epoch = 0
    /\ m_batch = 0
    /\ m_runs = [torch |-> NewRun, lightning |-> NewRun]
    /\ IdleSearch /\ IdleCallbacks /\ IdleSlack /\ IdleData

\* train_regression_model: one batch of `for batch in train_dataloader`.
TorchTrainBatch ==
    /\ m_pc = "torch_train"
    /\ m_runs' = [m_runs EXCEPT !.torch = TrainBatch(@)]
    /\ IF m_batch + 1 < loader_len(torch_train_dataloader)
       THEN /\ m_batch' = m_batch + 1
            /\ UNCHANGED m_pc
       ELSE /\ m_batch' = 0
            /\ m_pc' = "torch_val"
    /\ UNCHANGED m_epoch
    /\ UNCHANGED notCompare

\* train_regression_model: one batch of `for batch in val_dataloader`; after the
\* last one the epoch is over, and after n_epochs epochs the function returns and
\* the Lightning cell runs.
TorchValBatch ==
    /\ m_pc = "torch_val"
    /\ m_runs' = [m_runs EXCEPT !.torch = ValBatch(@)]
    /\ IF m_batch + 1 < loader_len(torch_val_dataloader)
       THEN /\ m_batch' = m_batch + 1
            /\ UNCHANGED <<m_pc, m_epoch>>
       ELSE /\ m_batch' = 0
            /\ IF m_epoch + 1 < n_epochs
               THEN /\ m_epoch' = m_epoch + 1
                    /\ m_pc' = "torch_train"
               ELSE /\ m_epoch' = 0
                    /\ m_pc' = "lightning_sanity"
    /\ UNCHANGED notCompare

\* Trainer.fit: a validation batch of the sanity check before the first epoch.
LightningSanityBatch ==
    /\ m_pc = "lightning_sanity"
    /\ m_runs' = [m_runs EXCEPT !.lightning.sanity_val_batches = @ + 1]
    /\ IF /\ m_batch + 1 < num_sanity_val_steps
          /\ m_batch + 1 < loader_len(val_dataloader(lightning_data_module))
       THEN /\ m_batch' = m_batch + 1
            /\ UNCHANGED m_pc
       ELSE /\ m_batch' = 0
            /\ m_pc' = "lightning_train"
    /\ UNCHANGED m_epoch
    /\ UNCHANGED notCompare

\* Trainer.fit: one training batch (training_step, backward, optimizer step).
LightningTrainBatch ==
    /\ m_pc = "lightning_train"
    /\ m_runs' = [m_runs EXCEPT !.lightning = TrainBatch(@)]
    /\ IF m_batch + 1 < loader_len(train_dataloader(lightning_data_module))
       THEN /\ m_batch' = m_batch + 1
            /\ UNCHANGED m_pc
       ELSE /\ m_batch' = 0
            /\ m_pc' = "lightning_val"
    /\ UNCHANGED m_epoch
    /\ UNCHANGED notCompare

\* Trainer.fit: one validation batch (validation_step); after the last one the
\* epoch is over, and after max_epochs epochs fit returns.
LightningValBatch ==
    /\ m_pc = "lightning_val"
    /\ m_runs' = [m_runs EXCEPT !.lightning = ValBatch(@)]
    /\ IF m_batch + 1 < loader_len(val_dataloader(lightning_data_module))
       THEN /\ m_batch' = m_batch + 1
            /\ UNCHANGED <<m_pc, m_epoch>>
       ELSE /\ m_batch' = 0
            /\ IF m_epoch + 1 < lightning_max_epochs
               THEN /\ m_epoch' = m_epoch + 1
                    /\ m_pc' = "lightning_train"
               ELSE /\ m_epoch' = m_epoch + 1
                    /\ m_pc' = "done"
    /\ UNCHANGED notCompare

NextCompare ==
    \/ TorchTrainBatch
    \/ TorchValBatch
    \/ LightningSanityBatch
    \/ LightningTrainBatch
    \/ LightningValBatch

SpecCompare == InitCompare /\ [][NextCompare]_vars

\* The phases of a run's epochs so far: 32 training batches, then 32 validation
\* batches, in every epoch; one update per training batch, one loss per batch.
EpochShape(run) ==
    /\ \A p \in 1..Len(run.phases) :
        run.phases[p] = IF (p - 1) % 64 < 32 THEN "train" ELSE "val"
    /\ run.updates = Cardinality({p \in 1..Len(run.phases) : run.phases[p] = "train"})
    /\ run.losses = Len(run.phases)

Init ==
    \/ InitSearch
    \/ InitCallbacks
    \/ InitSlack
    \/ InitCompare
    \/ InitData

Next ==
    \/ NextSearch
    \/ NextCallbacks
    \/ NextSlack
    \/ NextCompare
    \/ NextData

Spec == Init /\ [][Next]_vars
====
